---- MODULE Spec2Model ----
(***************************************************************************)
(* A model of scripts/training/run_zmert.py, the script that prepares and  *)
(* runs the Z-MERT and PRO tuners.                                         *)
(*                                                                         *)
(* Text.  A Python string is modelled as a sequence of lexemes.  A lexeme  *)
(* is a TLA+ string standing for the characters it spells; the string the  *)
(* sequence stands for is the concatenation of its lexemes.  Every         *)
(* character the code looks at on its own is a lexeme of its own: the      *)
(* space, the tab, the newline, "<", ">", "/", "=", each decimal digit.    *)
(* Every word the code searches for as a substring ("tm", "-path",         *)
(* "LanguageModel", ...) is a lexeme of its own wherever it occurs, also   *)
(* inside a longer word ("/my-path" is <<"/", "my", "-path">>).  The       *)
(* remaining lexemes are chunks of characters that hold none of these.     *)
(* So two sequences stand for the same string only when they are equal,    *)
(* and a substring test of the code is a test on lexemes.                  *)
(***************************************************************************)
EXTENDS Integers, Sequences, FiniteSets, TLC

VARIABLES
    input,      \* harness: the arguments of the function under study
    output,     \* harness: what the call returned or raised
    fs,         \* the file system: path -> node
    pc,         \* the orchestrator's position in run_zmert / run_pro
    args,       \* the arguments of the current run
    local,      \* the local variables of the current run
    log,        \* the side effects of the current run, in order
    runs        \* number of runs started on this file system

vars == <<input, output, fs, pc, args, local, log, runs>>
harnessVars == <<input, output>>
runVars == <<fs, pc, args, local, log, runs>>

----------------------------------------------------------------------------
(* Bounds of the model.                                                    *)

MaxRef == 3
MaxPieces == 5
MaxLines == 2
MaxConfigLines == 3
MaxRuns == 2

----------------------------------------------------------------------------
(* Python string operations, on lexeme sequences.                          *)

Digits == <<"0", "1", "2", "3", "4", "5", "6", "7", "8", "9">>

DigitSet == {Digits[i] : i \in 1..10}

\* '%d' % n, for n >= 0.
RECURSIVE Decimal(_)
Decimal(n) ==
    IF n < 10 THEN <<Digits[n + 1]>>
    ELSE Decimal(n \div 10) \o <<Digits[(n % 10) + 1]>>

\* str.startswith
StartsWith(s, p) ==
    /\ Len(s) >= Len(p)
    /\ SubSeq(s, 1, Len(p)) = p

\* l in s, for a one-lexeme needle l.
Contains(s, l) == \E i \in 1..Len(s) : s[i] = l

\* The characters str.strip() removes and \s matches.
Whitespace == {" ", "\t", "\n"}

RECURSIVE LStrip(_)
LStrip(s) ==
    IF s # <<>> /\ Head(s) \in Whitespace THEN LStrip(Tail(s)) ELSE s

RECURSIVE RStrip(_)
RStrip(s) ==
    IF s # <<>> /\ s[Len(s)] \in Whitespace
    THEN RStrip(SubSeq(s, 1, Len(s) - 1))
    ELSE s

\* str.strip()
Strip(s) == RStrip(LStrip(s))

\* Index of the first occurrence of lexeme sep in s at or after i, 0 if none.
RECURSIVE Find(_, _, _)
Find(s, sep, i) ==
    IF i > Len(s) THEN 0
    ELSE IF s[i] = sep THEN i
    ELSE Find(s, sep, i + 1)

\* The i-th smallest element of a set of numbers.
Kth(S, i) == CHOOSE x \in S : Cardinality({y \in S : y < x}) = i - 1

\* str.split(sep): every separator splits, empty fields are kept.
Split(s, sep) ==
    LET at == {k \in 1..Len(s) : s[k] = sep}
        n == Cardinality(at)
        cut == [i \in 0..(n + 1) |->
                   IF i = 0 THEN 0 ELSE IF i = n + 1 THEN Len(s) + 1 ELSE Kth(at, i)]
    IN  [i \in 1..(n + 1) |-> SubSeq(s, cut[i - 1] + 1, cut[i] - 1)]

\* str.split(sep, 1): at most one split.
Split1(s, sep) ==
    LET k == Find(s, sep, 1) IN
    IF k = 0 THEN <<s>>
    ELSE <<SubSeq(s, 1, k - 1), SubSeq(s, k + 1, Len(s))>>

\* The concatenation of list[lo..hi].
RECURSIVE Flatten(_, _, _)
Flatten(list, lo, hi) ==
    IF lo > hi THEN <<>>
    ELSE IF lo = hi THEN list[lo]
    ELSE LET mid == (lo + hi) \div 2 IN
         Flatten(list, lo, mid) \o Flatten(list, mid + 1, hi)

\* The concatenation of a list of strings.
Concat(list) == Flatten(list, 1, Len(list))

\* sep.join(list)
Join(list, sep) ==
    Concat([i \in 1..Len(list) |-> IF i = 1 THEN list[i] ELSE sep \o list[i]])

----------------------------------------------------------------------------
(* get_num_refs                                                            *)

\* '%s%s%d' % (prefix, ext, suffix)
RefName(prefix, ext, suffix) == prefix \o ext \o Decimal(suffix)

\* The while loop of get_num_refs: the first suffix from `suffix` on whose
\* file does not exist.
RECURSIVE CountRefs(_, _, _, _)
CountRefs(exists, prefix, ext, suffix) ==
    IF RefName(prefix, ext, suffix) \in exists
    THEN CountRefs(exists, prefix, ext, suffix + 1)
    ELSE suffix

\* A plausible slip: the numbered files are counted, gaps or not.
get_num_refs_counting(exists, prefix) ==
    LET dotted == {n \in 0..(MaxRef + 1) : RefName(prefix, <<".">>, n) \in exists}
        plain  == {n \in 0..(MaxRef + 1) : RefName(prefix, <<>>, n) \in exists}
    IN  IF RefName(prefix, <<".">>, 0) \in exists THEN Cardinality(dotted)
        ELSE IF RefName(prefix, <<>>, 0) \in exists THEN Cardinality(plain)
        ELSE IF prefix \in exists THEN 1
        ELSE 0

\* get_num_refs(prefix), with os.path.exists answered by the set `exists`.
get_num_refs(exists, prefix) ==
    IF RefName(prefix, <<".">>, 0) \in exists
    THEN CountRefs(exists, prefix, <<".">>, 0)
    ELSE IF RefName(prefix, <<>>, 0) \in exists
    THEN CountRefs(exists, prefix, <<>>, 0)
    ELSE IF prefix \in exists THEN 1
    ELSE 0

----------------------------------------------------------------------------
(* write_template                                                          *)

\* A value of the lookup hash: a string or an integer.
StrVal(s) == [t |-> "str", v |-> s]

IntVal(n) == [t |-> "int", v |-> n]

\* '{0}'.format(value)
Format(value) == IF value.t = "int" THEN Decimal(value.v) ELSE value.v

\* A plausible slip: lookup.get(name, ''), a blank for a missing key.
Lookup_default(lookup, name) ==
    IF name \in DOMAIN lookup
    THEN [ok |-> TRUE, text |-> Format(lookup[name])]
    ELSE [ok |-> TRUE, text |-> <<>>]

\* '{0}'.format(lookup[m.group(1)]): KeyError when the name is no key.
Lookup(lookup, name) ==
    IF name \in DOMAIN lookup
    THEN [ok |-> TRUE, text |-> Format(lookup[name])]
    ELSE [ok |-> FALSE, text |-> <<>>]

\* re.sub(r'<(.*?)>', ..., line): matches are found left to right, each from
\* a "<" to the first ">" after it; the replacement text is not scanned again.
RECURSIVE ReSub(_, _)
ReSub(line, lookup) ==
    LET i == Find(line, "<", 1)
        j == IF i = 0 THEN 0 ELSE Find(line, ">", i + 1)
    IN  IF j = 0 THEN [exc |-> "none", text |-> line]
        ELSE
            LET r == Lookup(lookup, SubSeq(line, i + 1, j - 1))
                rest == ReSub(SubSeq(line, j + 1, Len(line)), lookup)
            IN  IF ~r.ok THEN [exc |-> "KeyError", text |-> <<>>]
                ELSE IF rest.exc # "none" THEN rest
                ELSE [exc |-> "none",
                      text |-> SubSeq(line, 1, i - 1) \o r.text \o rest.text]

\* The loop of write_template over the lines: each line is substituted and
\* written, with a line break, until a substitution raises.
WriteLines(lines, lookup) ==
    LET subs == [i \in 1..Len(lines) |-> ReSub(lines[i], lookup)]
        bad == {i \in 1..Len(lines) : subs[i].exc # "none"}
        stop == IF bad = {} THEN Len(lines) + 1 ELSE Kth(bad, 1)
    IN  [exc |-> IF bad = {} THEN "none" ELSE subs[stop].exc,
         content |-> Concat([i \in 1..(stop - 1) |-> subs[i].text \o <<"\n">>])]

\* write_template(template, path, lookup): the exception raised, if any, and
\* the content the file at path is left with.
write_template(template, lookup) ==
    WriteLines(Split(template, "\n"), lookup)

----------------------------------------------------------------------------
(* parse_tm_line                                                           *)

\* The end of a match of \s* begun at i: the first index at or after i that
\* holds no whitespace.
RECURSIVE SkipWs(_, _)
SkipWs(s, i) ==
    IF i <= Len(s) /\ s[i] \in Whitespace THEN SkipWs(s, i + 1) ELSE i

\* re.sub(r'tm\s*=\s*', '', line): every match, left to right, is removed.
RECURSIVE ReSubTm(_)
ReSubTm(s) ==
    IF s = <<>> THEN <<>>
    ELSE
        LET eq == SkipWs(s, 2) IN
        IF Head(s) = "tm" /\ eq <= Len(s) /\ s[eq] = "="
        THEN ReSubTm(SubSeq(s, SkipWs(s, eq + 1), Len(s)))
        ELSE <<Head(s)>> \o ReSubTm(Tail(s))

TmRecord(owner, maxspan, path) ==
    [exc |-> "none", owner |-> owner, maxspan |-> maxspan, path |-> path]

TmError(exc) == [exc |-> exc, owner |-> <<>>, maxspan |-> <<>>, path |-> <<>>]

\* The loop over the key/value tokens of the new format, from token i on
\* (i counts from 1 here, from 0 in the code).
RECURSIVE KeyedLoop(_, _, _)
KeyedLoop(tokens, i, rec) ==
    IF i > Len(tokens) THEN rec
    ELSE IF i + 1 > Len(tokens) THEN TmError("IndexError")
    ELSE
        LET key == tokens[i]
            value == tokens[i + 1]
        IN  KeyedLoop(tokens, i + 2,
                IF key = <<"-path">> THEN [rec EXCEPT !.path = value]
                ELSE IF key = <<"-owner">> THEN [rec EXCEPT !.owner = value]
                ELSE IF key = <<"-maxspan">> THEN [rec EXCEPT !.maxspan = value]
                ELSE rec)

\* parse_tm_line(line): (owner, maxspan, path), or the exception raised.
parse_tm_line(text) ==
    LET line == Strip(ReSubTm(text)) IN
    IF Contains(line, "-path")
    THEN \* new format
        LET parts == Split1(line, " ") IN
        IF Len(parts) # 2 THEN TmError("ValueError")
        ELSE KeyedLoop(Split(parts[2], " "), 1, TmRecord(<<>>, <<>>, <<>>))
    ELSE \* old format
        LET fields == Split(line, " ") IN
        IF Len(fields) # 4 THEN TmError("ValueError")
        ELSE TmRecord(fields[2], fields[3], fields[4])

----------------------------------------------------------------------------
(* setup_configs: the loop that derives the parameters (lines 235-261)     *)

\* os.path.isabs
isabs(p) == p # <<>> /\ Head(p) = "/"

\* The index of the last "/" of p, 0 if none (str.rfind('/') + 1).
RECURSIVE RFindSlash(_, _)
RFindSlash(p, i) ==
    IF i = 0 THEN 0 ELSE IF p[i] = "/" THEN i ELSE RFindSlash(p, i - 1)

RECURSIVE RStripSlash(_)
RStripSlash(p) ==
    IF p # <<>> /\ p[Len(p)] = "/" THEN RStripSlash(SubSeq(p, 1, Len(p) - 1))
    ELSE p

\* os.path.dirname (posixpath): the head up to the last "/", without its
\* trailing slashes unless it is made of slashes only.
dirname(p) ==
    LET head == SubSeq(p, 1, RFindSlash(p, Len(p))) IN
    IF head # <<>> /\ \E i \in 1..Len(head) : head[i] # "/"
    THEN RStripSlash(head)
    ELSE head

\* os.path.join(a, b) (posixpath)
join(a, b) ==
    IF isabs(b) THEN b
    ELSE IF a = <<>> \/ a[Len(a)] = "/" THEN a \o b
    ELSE a \o <<"/">> \o b

\* The grammar feature extractor, scripts/training/get_grammar_features.pl,
\* is an external program: `world` maps the name of a grammar file to what
\* the program prints for it; for any other path the program fails.
Extractor(world, path) ==
    IF path # <<>> /\ path[Len(path)] \in DOMAIN world
    THEN [ok |-> TRUE, out |-> world[path[Len(path)]]]
    ELSE [ok |-> FALSE, out |-> <<>>]

\* get_features(grammar_path), given what check_output returned.
get_features(out) == Split(Strip(out), "\n")

\* re.match(r'^\d+$', f), for f without a line break.
IsNumeric(f) == f # <<>> /\ \A i \in 1..Len(f) : f[i] \in DigitSet

\* 'tm_%s_%s ||| 1.0 Opt -Inf +Inf -1 +1' % (owner, f), and
\* '%s ||| 0.0 Opt -Inf +Inf -1 +1' % (f)
TmParam(owner, f) ==
    IF IsNumeric(f)
    THEN <<"tm_">> \o owner \o <<"_">> \o f
            \o <<" ||| ", "1.0", " Opt -Inf +Inf -1 +1">>
    ELSE f \o <<" ||| ", "0.0", " Opt -Inf +Inf -1 +1">>

\* 'lm_%d ||| 1.0 Opt 0.1 +Inf +0.5 +1.5' % (lm_i)
LmParam(lm_i) ==
    <<"lm_">> \o Decimal(lm_i) \o <<" ||| ", "1.0", " Opt 0.1 +Inf +0.5 +1.5">>

\* '%s ||| 1.0 Opt -Inf +Inf -1 +1' % (ff)
FfParam(ff) == ff \o <<" ||| ", "1.0", " Opt -Inf +Inf -1 +1">>

FfAllowList == {<<"SourcePath">>, <<"PhrasePenalty">>, <<"Distortion">>}

\* A plausible slip: the grammar path is handed over as written.
ResolveGrammar_unresolved(config, path) == path

\* Lines 243-244: a path that is not absolute is joined to the directory of
\* the decoder config.
ResolveGrammar(config, path) ==
    IF ~isabs(path) THEN join(dirname(config), path) ELSE path

\* A plausible slip: the parameters of a TM line are put in front.
AppendParams_front(params, new) == new \o params

\* params.append, once per new entry, in order.
AppendParams(params, new) == params \o new

\* A plausible slip: every language model gets the same index.
NextLm_stuck(lm_i) == lm_i

\* lm_i += 1
NextLm(lm_i) == lm_i + 1

\* The lines of a file as iteration over the open file yields them: each
\* with its line break, the last one possibly without.
FileLines(text) ==
    LET at == {k \in 1..Len(text) : text[k] = "\n"}
        n == Cardinality(at)
        cut == [i \in 0..n |-> IF i = 0 THEN 0 ELSE Kth(at, i)]
        whole == [i \in 1..n |-> SubSeq(text, cut[i - 1] + 1, cut[i])]
    IN  IF cut[n] = Len(text) THEN whole
        ELSE Append(whole, SubSeq(text, cut[n] + 1, Len(text)))

\* One iteration of the loop of lines 239-259 on `line`; st holds params,
\* lm_i, the calls made to the extractor so far, and the exception raised.
ParseLine(config, world, line, st) ==
    IF StartsWith(line, <<"tm", " ", "=">>)
    THEN
        LET tm == parse_tm_line(line)
            path == ResolveGrammar(config, tm.path)
            got == Extractor(world, path)
            feats == get_features(got.out)
        IN  IF tm.exc # "none" THEN [st EXCEPT !.exc = tm.exc]
            ELSE IF ~got.ok
            THEN [st EXCEPT !.exc = "CalledProcessError",
                            !.calls = @ \o <<[path |-> path, feats |-> <<>>]>>]
            ELSE [st EXCEPT
                    !.calls = @ \o <<[path |-> path, feats |-> feats]>>,
                    !.params = AppendParams(@,
                        [i \in 1..Len(feats) |-> TmParam(tm.owner, feats[i])])]
    ELSE IF StartsWith(line, <<"feature-function", " ", "=">>)
    THEN
        IF Contains(line, "LanguageModel")
        THEN [st EXCEPT !.params = AppendParams(@, <<LmParam(st.lm_i)>>),
                        !.lm_i = NextLm(@)]
        ELSE
            LET fields == Split(line, " ") IN
            IF Len(fields) < 3 THEN [st EXCEPT !.exc = "IndexError"]
            ELSE IF fields[3] \in FfAllowList
            THEN [st EXCEPT !.params = AppendParams(@, <<FfParam(fields[3])>>)]
            ELSE st
    ELSE st

RECURSIVE ParseLoop(_, _, _, _)
ParseLoop(config, world, lines, st) ==
    IF lines = <<>> \/ st.exc # "none" THEN st
    ELSE ParseLoop(config, world, Tail(lines),
                   ParseLine(config, world, Head(lines), st))

\* Lines 237-259: the parameters derived from the text of the decoder config.
derive_params(config, world, text) ==
    ParseLoop(config, world, FileLines(text),
              [exc |-> "none", params |-> <<>>, lm_i |-> 0, calls |-> <<>>])

----------------------------------------------------------------------------
(* The templates.  A template is split at line breaks and searched for "<" *)
(* and ">" only, so its other text is kept in chunks: a key, a run of      *)
(* blanks, a word of a value ("/" apart, as in every path), a comment.     *)

\* ZMERT_CONFIG_TEMPLATE (lines 41-55): its lines, as template.split('\n') gives them.
ZMERT_CONFIG_TEMPLATE ==
    Join(<<
        <<"### MERT parameters">>,
        <<"# target sentences file name (in this case, file name prefix)">>,
        <<>>,
        <<"-r", "       ", "<", "REF", ">">>,
        <<"-rps", "     ", "<", "NUMREFS", ">", "                   ",
          "# references per sentence">>,
        <<"-p", "       ", "<", "TUNEDIR", ">", "/", "params.txt",
          "        ", "# parameter file">>,
        <<"-m", "       ", "BLEU", " ", "4", " ", "closest",
          "              ", "# evaluation metric and its options">>,
        <<"-maxIt", "   ", "10", "                          ",
          "# maximum MERT iterations">>,
        <<"-ipi", "     ", "20", "                          ",
          "# number of intermediate initial points per iteration">>,
        <<"-cmd", "     ", "<", "DECODER_COMMAND", ">", "           ",
          "# file containing commands to run decoder">>,
        <<"-decOut", "  ", "<", "DECODER_OUTPUT", ">", "            ",
          "# file produced by decoder">>,
        <<"-dcfg", "    ", "<", "DECODER_CONFIG", ">", "            ",
          "# decoder config file">>,
        <<"-N", "       ", "300", "                         ",
          "# size of N-best list">>,
        <<"-v", "       ", "1", "                           ",
          "# verbosity level (0-2; higher value =", ">", " ", "more", " ",
          "verbose)">>,
        <<>>
    >>, <<"\n">>)

\* PRO_CONFIG_TEMPLATE (lines 57-136): its lines, as template.split('\n') gives them.
PRO_CONFIG_TEMPLATE ==
    Join(<<
        <<"### Part 1: parameters similar to Z-MERT">>,
        <<"# target sentences file name (in this case, file name prefix)">>,
        <<"-r", "\t ", "<", "REF", ">">>,
        <<>>,
        <<"# references per sentence">>,
        <<"-rps", " ", "<", "NUMREFS", ">", "\t\t\t">>,
        <<>>,
        <<"# parameter file">>,
        <<"-p", "\t ", "<", "TUNEDIR", ">", "/", "params.txt">>,
        <<>>,
        <<"#metric setting:">>,
        <<"-m", "\t ", "BLEU", " ", "4", " ", "closest">>,
        <<"#-m\t TER nocase punc 5 5 joshua/zmert/tercom-0.7.25/tercom.7.25.jar 1">>,
        <<"#-m\t TER-BLEU nocase punc 20 50  joshua/zmert/tercom-0.7.25/tercom.7.25.jar 1 4 closest">>,
        <<"#-m\t METEOR en norm_yes keepPunc 2  #old meteor interface  #Z-MERT Meteor interface(not working)">>,
        <<"#-m\t Meteor en lowercase '0.5 1.0 0.5 0.5' 'exact stem synonym paraphrase' '1.0 0.5 0.5 0.5' #CMU meteor interface">>,
        <<>>,
        <<"# maximum PRO iterations">>,
        <<"-maxIt", "\t ", "30">>,
        <<>>,
        <<"# file containing commands to run decoder">>,
        <<"-cmd", "\t ", "<", "TUNEDIR", ">", "/", "decoder_command", "   ">>,
        <<>>,
        <<"# file prodcued by decoder">>,
        <<"-decOut", "\t ", "<", "TUNEDIR", ">", "/", "tune.output.nbest">>,
        <<>>,
        <<"# decoder config file">>,
        <<"-dcfg", "\t ", "<", "TUNEDIR", ">", "/", "joshua.config">>,
        <<>>,
        <<"# size of N-best list">>,
        <<"-N", "\t ", "300">>,
        <<>>,
        <<"# verbosity level (0-2; higher value =", ">", " more verbose)">>,
        <<"-v", "\t ", "1">>,
        <<>>,
        <<>>,
        <<"### Part2: PRO parameters">>,
        <<"#-trainingMode can be 1,2,3,4">>,
        <<"#1: train dense feature weights only">>,
        <<"#2: train dense & sparse feature weights together">>,
        <<"#3: train sparse feature weights only(with dense feature weights fixed) also works)">>,
        <<"#4: treat sparse features as one component(summary feature), train dense and summary feature weights together">>,
        <<>>,
        <<"-trainingMode", "\t", "1">>,
        <<>>,
        <<"#-nbestFormat can be \"sparse\" or \"dense\"">>,
        <<"#for trainingMode 1: either \"dense\" or \"sparse\"">>,
        <<"#for trainingMode 2-4: use \"sparse\" format">>,
        <<>>,
        <<"-nbestFormat", "\t", "dense", "\t", "#dense or sparse">>,
        <<>>,
        <<"#use one of the classifiers(and the corresponding parameter setting) below:">>,
        <<"#1.perceptron paramters">>,
        <<"-classifierClass", "\t", "joshua.pro.ClassifierPerceptron">>,
        <<"-classifierParams", "\t", "'30", " ", "0.5", " ", "0.0'">>,
        <<>>,
        <<"#2.MegaM parameters">>,
        <<"#-classifierClass\tjoshua.pro.ClassifierMegaM">>,
        <<"#-classifierParams\t'./megam_command ./megam_train.data ./megam_weights'">>,
        <<>>,
        <<"#3.Stanford Max-Ent parameters">>,
        <<"#-classifierClass\tjoshua.pro.ClassifierMaxEnt">>,
        <<"#-classifierParams\t'./maxent_prop_file'">>,
        <<>>,
        <<"#4.LibSVM parameters">>,
        <<"#-classifierClass\tjoshua.pro.ClassifierSVM">>,
        <<"#-classifierParams\t'./libsvm_command ./libsvm_train.data ./libsvm_train.data.model'">>,
        <<>>,
        <<"# num of candidate samples">>,
        <<"-Tau", "\t", "8000">>,
        <<>>,
        <<"# num of top candidates">>,
        <<"-Xi", "\t", "50">>,
        <<>>,
        <<"# linear interpolation coef. range:[0,1]. 1=using new weights only; 0=using previous weights only">>,
        <<"-interCoef", "\t", "0.5", "\t">>,
        <<>>,
        <<"# threshold for sample selection">>,
        <<"-metricDiff", "\t", "0.05", "\t">>,
        <<>>
    >>, <<"\n">>)

\* PARAMS_TEMPLATE (lines 138-142): its lines, as template.split('\n') gives them.
PARAMS_TEMPLATE ==
    Join(<<
        <<"<", "PARAMS", ">">>,
        <<"WordPenalty        ||| -2.844814  Opt  -Inf  +Inf  -5   0">>,
        <<"OOVPenalty         ||| 1          Fix     0     0   0   0">>,
        <<"normalization = absval 1 lm_0">>,
        <<>>
    >>, <<"\n">>)

----------------------------------------------------------------------------
(* The file system.  fs maps the paths that exist to a regular file or a   *)
(* symbolic link; directories are taken to exist (main creates tunedir).   *)
(* A path is the string the script builds, its "/" lexemes of their own.   *)

File(content) == [type |-> "file", content |-> content, target |-> <<>>]

Link(target) == [type |-> "link", content |-> <<>>, target |-> target]

\* Where following symbolic links from path ends: at a regular file, at a
\* name that does not exist, or nowhere (a loop).  A relative link target is
\* taken from the directory of the link.
RECURSIVE Resolve(_, _, _)
Resolve(f, path, fuel) ==
    IF path \notin DOMAIN f THEN [st |-> "absent", path |-> path]
    ELSE IF f[path].type = "file" THEN [st |-> "file", path |-> path]
    ELSE IF fuel = 0 THEN [st |-> "loop", path |-> path]
    ELSE Resolve(f, join(dirname(path), f[path].target), fuel - 1)

\* os.path.isfile and, without directories, os.path.exists: both follow
\* symbolic links.
isfile(f, path) == Resolve(f, path, Cardinality(DOMAIN f)).st = "file"

\* The names for which os.path.exists is true.
ExistingFiles(f) == {path \in DOMAIN f : isfile(f, path)}

\* os.unlink
unlink(f, path) == [q \in (DOMAIN f) \ {path} |-> f[q]]

\* remove_if_present(file)
remove_if_present(f, file) == IF isfile(f, file) THEN unlink(f, file) ELSE f

\* os.symlink(target, linkpath): fails when the name linkpath exists, be it a
\* dangling link.  (OSError with EEXIST; FileExistsError in Python 3.)
symlink(f, target, linkpath) ==
    IF linkpath \in DOMAIN f
    THEN [exc |-> "FileExistsError", fs |-> f]
    ELSE [exc |-> "none", fs |-> (linkpath :> Link(target)) @@ f]

\* open(path, 'w'), the writes and close(): the file the path leads to holds
\* `content` afterwards.
open_write(f, path, content) ==
    LET r == Resolve(f, path, Cardinality(DOMAIN f)) IN
    IF r.st = "loop" THEN [exc |-> "IOError", fs |-> f]
    ELSE [exc |-> "none", fs |-> (r.path :> File(content)) @@ f]

\* open(path) and the reading of its lines.
open_read(f, path) ==
    LET r == Resolve(f, path, Cardinality(DOMAIN f)) IN
    IF r.st = "file" THEN [exc |-> "none", text |-> f[r.path].content]
    ELSE [exc |-> "IOError", text |-> <<>>]

----------------------------------------------------------------------------
(* run_zmert and run_pro, step by step.                                    *)

LocalInit ==
    [num_refs |-> 0, local_config |-> <<>>, params |-> <<>>,
     exit_status |-> -1, error |-> "none", raised_at |-> "none"]

\* What the extractor prints for the grammars of the runs.
RunWorld ==
    ("grammar" :> <<"0", "\n", "1", "\n">>)
        @@ ("glue" :> <<"0", "\n", "OOV", "\n">>)

\* The exit statuses of the optimizer.
ExitStatuses == {0, 1}

\* The template and the file name of the tuner config (lines 272 and 286).
TunerTemplate(tuner) ==
    IF tuner = "zmert" THEN ZMERT_CONFIG_TEMPLATE ELSE PRO_CONFIG_TEMPLATE

\* '%s/mert.config' % (tunedir), '%s/pro.config' % (tunedir)
TunerConfigPath(tuner, tunedir) ==
    tunedir \o <<"/", IF tuner = "zmert" THEN "mert.config" ELSE "pro.config">>

\* '%s/params.txt' % (tunedir)
ParamsPath(tunedir) == tunedir \o <<"/", "params.txt">>

\* '%s/mert.log', '%s/pro.log': where the shell sends the optimizer's output.
TunerLogPath(tuner, tunedir) ==
    tunedir \o <<"/", IF tuner = "zmert" THEN "mert.log" ELSE "pro.log">>

\* os.path.join(tunedir, 'joshua.config')
LocalConfigPath(tunedir) == join(tunedir, <<"joshua.config">>)

\* os.path.join(tunedir, 'joshua.config.final')
FinalConfigPath(tunedir) == join(tunedir, <<"joshua.config.final">>)

\* os.path.join(tunedir, 'joshua.config.ZMERT.final'), for both tuners.
FinalTarget(tunedir) == join(tunedir, <<"joshua.config.ZMERT.final">>)

\* The lookup hash of lines 228-233.
TunerLookup(a, num_refs, local_config) ==
    (<<"REF">> :> StrVal(a.target))
        @@ (<<"NUMREFS">> :> IntVal(num_refs))
        @@ (<<"TUNEDIR">> :> StrVal(a.tunedir))
        @@ (<<"DECODER_COMMAND">> :> StrVal(a.command))
        @@ (<<"DECODER_CONFIG">> :> StrVal(local_config))
        @@ (<<"DECODER_OUTPUT">> :> StrVal(a.output))

\* The lookup hash of lines 263-266; paramstr is '\n'.join(params).
ParamsLookup(a, num_refs, params) ==
    (<<"REF">> :> StrVal(a.target))
        @@ (<<"NUMREFS">> :> IntVal(num_refs))
        @@ (<<"TUNEDIR">> :> StrVal(a.tunedir))
        @@ (<<"PARAMS">> :> StrVal(Join(params, <<"\n">>)))

\* A plausible slip: the optimizer is started once the tuner config is
\* written, before params.txt is.
AfterStep_early(step) ==
    CASE step = "link_decoder_config" -> "write_tuner_config"
      [] step = "write_tuner_config" -> "start_optimizer"
      [] step = "derive_params" -> "write_params"
      [] step = "write_params" -> "start_optimizer"
      [] step = "start_optimizer" -> "optimizer_running"
      [] step = "optimizer_running" -> "publish_final"
      [] step = "publish_final" -> "done"

\* The statement that follows each step in setup_configs and in run_zmert /
\* run_pro.
AfterStep(step) ==
    CASE step = "link_decoder_config" -> "write_tuner_config"
      [] step = "write_tuner_config" -> "derive_params"
      [] step = "derive_params" -> "write_params"
      [] step = "write_params" -> "start_optimizer"
      [] step = "start_optimizer" -> "optimizer_running"
      [] step = "optimizer_running" -> "publish_final"
      [] step = "publish_final" -> "done"

\* An uncaught exception ends the process.
Raise(exc) ==
    /\ pc' = "raised"
    /\ local' = [local EXCEPT !.error = exc, !.raised_at = pc]
    /\ UNCHANGED log

\* The step at pc is done; its side effect is logged.
Done(event) ==
    /\ pc' = AfterStep(pc)
    /\ log' = Append(log, event)

\* main calls run_zmert or run_pro; the arguments of setup_configs are
\* evaluated, get_num_refs(target) among them.
StartRun(tuner) ==
    /\ pc \in {"idle", "done", "raised"}
    /\ runs < MaxRuns
    /\ runs' = runs + 1
    /\ args' = [args EXCEPT !.tuner = tuner]
    /\ local' = [LocalInit EXCEPT
                   !.num_refs = get_num_refs(ExistingFiles(fs), args.target)]
    /\ pc' = "link_decoder_config"
    /\ log' = <<>>
    /\ UNCHANGED <<fs, harnessVars>>

run_zmert == StartRun("zmert")

run_pro == StartRun("pro")

\* Lines 223-225.
LinkDecoderConfig ==
    /\ pc = "link_decoder_config"
    /\ LET local_config == LocalConfigPath(args.tunedir)
           removed == remove_if_present(fs, local_config)
           r == symlink(removed, args.config, local_config)
       IN  /\ fs' = r.fs
           /\ IF r.exc # "none" THEN Raise(r.exc)
              ELSE /\ pc' = AfterStep(pc)
                   /\ log' = Append(log, "link_decoder_config")
                   /\ local' = [local EXCEPT !.local_config = local_config]
    /\ UNCHANGED <<args, runs, harnessVars>>

\* Lines 227-233.
WriteTunerConfig ==
    /\ pc = "write_tuner_config"
    /\ LET w == write_template(TunerTemplate(args.tuner),
                    TunerLookup(args, local.num_refs, local.local_config))
           o == open_write(fs, TunerConfigPath(args.tuner, args.tunedir),
                           w.content)
       IN  /\ fs' = o.fs
           /\ IF o.exc # "none" THEN Raise(o.exc)
              ELSE IF w.exc # "none" THEN Raise(w.exc)
              ELSE Done("write_tuner_config") /\ UNCHANGED local
    /\ UNCHANGED <<args, runs, harnessVars>>

\* Lines 237-259.
DeriveParams ==
    /\ pc = "derive_params"
    /\ LET rd == open_read(fs, args.config)
           d == derive_params(args.config, RunWorld, rd.text)
       IN  IF rd.exc # "none" THEN Raise(rd.exc)
           ELSE IF d.exc # "none" THEN Raise(d.exc)
           ELSE /\ pc' = AfterStep(pc)
                /\ local' = [local EXCEPT !.params = d.params]
                /\ UNCHANGED log
    /\ UNCHANGED <<fs, args, runs, harnessVars>>

\* Lines 261-266.
WriteParams ==
    /\ pc = "write_params"
    /\ LET w == write_template(PARAMS_TEMPLATE,
                    ParamsLookup(args, local.num_refs, local.params))
           o == open_write(fs, ParamsPath(args.tunedir), w.content)
       IN  /\ fs' = o.fs
           /\ IF o.exc # "none" THEN Raise(o.exc)
              ELSE IF w.exc # "none" THEN Raise(w.exc)
              ELSE Done("write_params") /\ UNCHANGED local
    /\ UNCHANGED <<args, runs, harnessVars>>

\* Lines 276 and 290, call(...): the shell opens the log and starts java.
StartOptimizer ==
    /\ pc = "start_optimizer"
    /\ fs' = (TunerLogPath(args.tuner, args.tunedir) :> File(<<>>)) @@ fs
    /\ Done("optimizer_start")
    /\ UNCHANGED <<args, local, runs, harnessVars>>

\* call(...) returns: the optimizer has ended with some exit status, having
\* written the file the script will link to, or not.  The status is dropped.
OptimizerExits ==
    /\ pc = "optimizer_running"
    /\ \E status \in ExitStatuses, produced \in BOOLEAN :
         /\ fs' = IF produced
                  THEN (FinalTarget(args.tunedir) :> File(<<"tuned", "\n">>)) @@ fs
                  ELSE fs
         /\ local' = [local EXCEPT !.exit_status = status]
    /\ pc' = AfterStep(pc)
    /\ log' = Append(log, "optimizer_exit")
    /\ UNCHANGED <<args, runs, harnessVars>>

\* Lines 278-280 and 292-294.
PublishFinal ==
    /\ pc = "publish_final"
    /\ LET final_config_path == FinalConfigPath(args.tunedir)
           removed == remove_if_present(fs, final_config_path)
           r == symlink(removed, FinalTarget(args.tunedir), final_config_path)
       IN  /\ fs' = r.fs
           /\ IF r.exc # "none" THEN Raise(r.exc)
              ELSE Done("link_final") /\ UNCHANGED local
    /\ UNCHANGED <<args, runs, harnessVars>>

----------------------------------------------------------------------------
(* The harness of the pure functions: Init draws the arguments, the one    *)
(* action calls the function.                                              *)

Pending == [st |-> "pending"]

Returned(v) == [st |-> "return", value |-> v]

Raised(e) == [st |-> "raise", exc |-> e]

\* The orchestrator is not running.
RunIdle ==
    /\ fs = <<>>
    /\ pc = "idle"
    /\ args = [tuner |-> "none"]
    /\ local = [num_refs |-> 0]
    /\ log = <<>>
    /\ runs = 0

RefPrefixes == {<<"/", "tmp", "/", "ref">>, <<"ref", ".">>}

\* The names get_num_refs can probe for one prefix.
RefUniverse(prefix) ==
    {prefix}
        \cup {RefName(prefix, <<".">>, n) : n \in 0..MaxRef}
        \cup {RefName(prefix, <<>>, n) : n \in 0..MaxRef}

InitRefs ==
    /\ \E prefix \in RefPrefixes :
         \E exists \in SUBSET RefUniverse(prefix) :
            input = [fn |-> "get_num_refs", prefix |-> prefix, exists |-> exists]
    /\ output = Pending
    /\ RunIdle

Call_get_num_refs ==
    /\ input.fn = "get_num_refs"
    /\ output = Pending
    /\ output' = Returned(get_num_refs(input.exists, input.prefix))
    /\ UNCHANGED <<input, runVars>>

NextRefs == Call_get_num_refs

SpecRefs == InitRefs /\ [][NextRefs]_vars

\* The first number from 0 on whose file, under convention ext, is missing.
FirstGap(exists, prefix, ext) ==
    CHOOSE n \in 0..(MaxRef + 1) :
        /\ RefName(prefix, ext, n) \notin exists
        /\ \A m \in 0..(n - 1) : RefName(prefix, ext, m) \in exists

\* C3: get_num_refs(prefix) returns, when prefix.0 or prefix0 exists, the
\* smallest N whose file under the adopted convention (the "." convention
\* first) does not exist; otherwise 1 when prefix itself exists; otherwise 0.
\* Files numbered after the first gap are not counted.
C3_NumRefs ==
    (input.fn = "get_num_refs" /\ output.st = "return") =>
        LET exists == input.exists
            prefix == input.prefix
        IN  output.value =
                IF RefName(prefix, <<".">>, 0) \in exists
                THEN FirstGap(exists, prefix, <<".">>)
                ELSE IF RefName(prefix, <<>>, 0) \in exists
                THEN FirstGap(exists, prefix, <<>>)
                ELSE IF prefix \in exists THEN 1
                ELSE 0

\* C3's case: files .0, .1 and .3 exist, .2 does not, and 2 is returned
\* although the undotted family and the prefix itself exist too.
C3_Witness ==
    /\ input.fn = "get_num_refs"
    /\ output.st = "return"
    /\ {RefName(input.prefix, <<".">>, n) : n \in {0, 1, 3}} \subseteq input.exists
    /\ RefName(input.prefix, <<".">>, 2) \notin input.exists
    /\ RefName(input.prefix, <<>>, 0) \in input.exists
    /\ input.prefix \in input.exists
    /\ output.value = 2

----------------------------------------------------------------------------
(* write_template on arbitrary templates and lookups.                      *)

\* What a template is made of: text, placeholders, stray brackets, line
\* breaks.
Pieces ==
    {<<"x">>, <<"<", "A", ">">>, <<"<", "B", ">">>, <<"<">>, <<">">>, <<"\n">>}

RECURSIVE PieceSeqs(_)
PieceSeqs(n) ==
    IF n = 0 THEN {<<>>}
    ELSE PieceSeqs(n - 1) \cup {s \o p : s \in PieceSeqs(n - 1), p \in Pieces}

LineBreaks(t) == Cardinality({i \in 1..Len(t) : t[i] = "\n"})

\* The templates of up to MaxPieces pieces on up to MaxLines lines.
Templates == {t \in PieceSeqs(MaxPieces) : LineBreaks(t) < MaxLines}

LookupValues == (<<"A">> :> StrVal(<<"a-val">>)) @@ (<<"B">> :> IntVal(12))

Lookups == {[k \in keys |-> LookupValues[k]] : keys \in SUBSET DOMAIN LookupValues}

InitTemplate ==
    /\ \E template \in Templates :
         \E lookup \in Lookups :
            input = [fn |-> "write_template", template |-> template,
                     lookup |-> lookup]
    /\ output = Pending
    /\ RunIdle

Call_write_template ==
    /\ input.fn = "write_template"
    /\ output = Pending
    /\ LET r == write_template(input.template, input.lookup) IN
         output' = IF r.exc = "none" THEN Returned(r.content) ELSE Raised(r.exc)
    /\ UNCHANGED <<input, runVars>>

NextTemplate == Call_write_template

SpecTemplate == InitTemplate /\ [][NextTemplate]_vars

\* A placeholder <NAME> of the template whose name is not a key: a "<", a
\* name free of brackets and line breaks, a ">".
MissingPlaceholder(template, lookup) ==
    \E i \in 1..Len(template) :
        \E j \in (i + 1)..Len(template) :
            /\ template[i] = "<"
            /\ template[j] = ">"
            /\ \A k \in (i + 1)..(j - 1) : template[k] \notin {"<", ">", "\n"}
            /\ SubSeq(template, i + 1, j - 1) \notin DOMAIN lookup

\* C6: write_template fails with a missing-key error whenever the template
\* holds a placeholder whose name is not a key of the mapping, wherever the
\* placeholder stands; no default or blank is substituted.
C6_MissingKeyFails ==
    (input.fn = "write_template" /\ output.st # "pending"
        /\ MissingPlaceholder(input.template, input.lookup)) =>
        (output.st = "raise" /\ output.exc = "KeyError")

\* C6's case: the missing placeholder is on the last line, after a
\* placeholder that is a key, and the first line renders.
C6_Witness ==
    /\ input.fn = "write_template"
    /\ input.template = <<"<", "A", ">", "x", "\n", "<", "A", ">", "<", "B", ">">>
    /\ DOMAIN input.lookup = {<<"A">>}
    /\ output.st = "raise"
    /\ output.exc = "KeyError"

----------------------------------------------------------------------------
(* parse_tm_line on the two forms of a TM line.                            *)

TmPrefix == <<"tm", " ", "=", " ">>

\* tm = type owner maxspan path
LegacyLine(type, owner, maxspan, path) ==
    TmPrefix \o type \o <<" ">> \o owner \o <<" ">> \o maxspan \o <<" ">> \o path

\* tm = type -key value -key value ..., for a sequence of <<key, value>>.
RECURSIVE KeyedArgs(_)
KeyedArgs(kvs) ==
    IF kvs = <<>> THEN <<>>
    ELSE <<" ">> \o Head(kvs)[1] \o <<" ">> \o Head(kvs)[2] \o KeyedArgs(Tail(kvs))

KeyedLine(type, kvs) == TmPrefix \o type \o KeyedArgs(kvs)

TmKeys == {"-owner", "-path", "-maxspan"}

\* The orders in which any subset of the keys can be written.
KeyOrders ==
    {ks \in UNION {[1..n -> TmKeys] : n \in 0..3} :
        \A i, j \in 1..Len(ks) : i # j => ks[i] # ks[j]}

GrammarTypes == {<<"thrax">>}

Owners == {<<"pt">>, <<"glue">>}

Maxspans == {<<"0">>, <<"2", "0">>}

TmPaths == {<<"/", "grammar", "/", "path">>,
            <<"grammar", ".", "gz">>,
            <<"/", "data", "-path", "/", "grammar">>}

ValueOf(key, owner, maxspan, path) ==
    IF key = "-owner" THEN owner ELSE IF key = "-path" THEN path ELSE maxspan

InitTm ==
    /\ \E type \in GrammarTypes, owner \in Owners, maxspan \in Maxspans,
          path \in TmPaths, eol \in {<<>>, <<"\n">>} :
         \/ input = [fn |-> "parse_tm_line", form |-> "legacy",
                     keys |-> <<"-owner", "-maxspan", "-path">>,
                     owner |-> owner, maxspan |-> maxspan, path |-> path,
                     line |-> LegacyLine(type, owner, maxspan, path) \o eol]
         \/ \E ks \in KeyOrders :
              input = [fn |-> "parse_tm_line", form |-> "keyed", keys |-> ks,
                       owner |-> owner, maxspan |-> maxspan, path |-> path,
                       line |-> KeyedLine(type,
                           [i \in 1..Len(ks) |->
                              <<<<ks[i]>>, ValueOf(ks[i], owner, maxspan, path)>>])
                           \o eol]
    /\ output = Pending
    /\ RunIdle

Call_parse_tm_line ==
    /\ input.fn = "parse_tm_line"
    /\ output = Pending
    /\ LET r == parse_tm_line(input.line) IN
         output' = IF r.exc = "none"
                   THEN Returned([owner |-> r.owner, maxspan |-> r.maxspan,
                                  path |-> r.path])
                   ELSE Raised(r.exc)
    /\ UNCHANGED <<input, runVars>>

NextTm == Call_parse_tm_line

SpecTm == InitTm /\ [][NextTm]_vars

\* The value a line written with the keys `keys` gives to key: the value
\* written, the empty string when the key is absent.
Given(keys, key, value) ==
    IF \E i \in 1..Len(keys) : keys[i] = key THEN value ELSE <<>>

\* C2: parse_tm_line returns the same (owner, maxspan, path) for the legacy
\* line and for the keyed line with the three keys in any order, and for a
\* keyed line with any subset of the keys the values given and the empty
\* string for the absent keys.
C2_TmRecord ==
    (input.fn = "parse_tm_line" /\ output.st # "pending") =>
        output = Returned([owner |-> Given(input.keys, "-owner", input.owner),
                           maxspan |-> Given(input.keys, "-maxspan", input.maxspan),
                           path |-> Given(input.keys, "-path", input.path)])

\* What parse_tm_line does keep: the record is the one written whenever the
\* line is keyed and has -path, or is legacy with no "-path" inside a value.
C2_WhenPathKeyed ==
    (input.fn = "parse_tm_line" /\ output.st # "pending"
        /\ IF input.form = "keyed"
           THEN \E i \in 1..Len(input.keys) : input.keys[i] = "-path"
           ELSE ~Contains(input.line, "-path")) =>
        output = Returned([owner |-> Given(input.keys, "-owner", input.owner),
                           maxspan |-> Given(input.keys, "-maxspan", input.maxspan),
                           path |-> Given(input.keys, "-path", input.path)])

----------------------------------------------------------------------------
(* The parameter derivation on arbitrary decoder configs.                  *)

FfPrefix == <<"feature-function", " ", "=">>

TmLine(owner, path, text) ==
    [kind |-> "tm", owner |-> owner, path |-> path, token |-> <<>>,
     text |-> text \o <<"\n">>]

\* A feature-function line: `token` is its type token, the third field.
FfLine(token, text) ==
    [kind |-> IF Contains(token, "LanguageModel") THEN "lm" ELSE "ff",
     owner |-> <<>>, path |-> <<>>, token |-> token,
     text |-> text \o <<"\n">>]

OtherLine(text) ==
    [kind |-> "other", owner |-> <<>>, path |-> <<>>, token |-> <<>>,
     text |-> text \o <<"\n">>]

\* The lines a decoder config is made of here.
ConfigLineSet ==
    { TmLine(<<"pt">>, <<"grammar">>,
             LegacyLine(<<"thrax">>, <<"pt">>, <<"2", "0">>, <<"grammar">>)),
      TmLine(<<"glue">>, <<"/", "data", "/", "glue">>,
             KeyedLine(<<"thrax">>,
                 << <<<<"-owner">>, <<"glue">>>>, <<<<"-maxspan">>, <<"0">>>>,
                    <<<<"-path">>, <<"/", "data", "/", "glue">>>> >>)),
      TmLine(<<"pt">>, <<"tm", "/", "grammar">>,
             KeyedLine(<<"thrax">>,
                 << <<<<"-path">>, <<"tm", "/", "grammar">>>>,
                    <<<<"-owner">>, <<"pt">>>> >>)),
      FfLine(<<"LanguageModel">>,
             FfPrefix \o <<" ", "LanguageModel", " ", "-lm_order", " ", "5">>),
      FfLine(<<"StateMinimizing", "LanguageModel">>,
             FfPrefix \o <<" ", "StateMinimizing", "LanguageModel", " ",
                           "-lm_order", " ", "5">>),
      FfLine(<<"SourcePath">>, FfPrefix \o <<" ", "SourcePath">>),
      FfLine(<<"PhrasePenalty">>,
             FfPrefix \o <<" ", "PhrasePenalty", " ", "-owner", " ", "pt">>),
      FfLine(<<"OOVPenalty">>, FfPrefix \o <<" ", "OOVPenalty">>),
      FfLine(<<"Distortion">>, FfPrefix \o <<"\t", "Distortion">>),
      FfLine(<<"Distortion">>,
             FfPrefix \o <<" ", " ", "Distortion", " ", "-limit", " ", "4">>),
      OtherLine(<<"#", " ", "tm", " ", "=", " ", "feature-function", " ", "=">>) }

RECURSIVE Configs(_)
Configs(n) ==
    IF n = 0 THEN {<<>>}
    ELSE Configs(n - 1)
            \cup {c \o <<l>> : c \in Configs(n - 1), l \in ConfigLineSet}

\* Where the decoder config is: the directory that contains it, and its path
\* as given to the script (dir <<>>: the config is named without a directory).
ConfigPlaces ==
    { [dir |-> <<"/", "exp", "/", "model">>,
       config |-> <<"/", "exp", "/", "model", "/", "joshua.config">>],
      [dir |-> <<"model">>, config |-> <<"model", "/", "joshua.config">>],
      [dir |-> <<>>, config |-> <<"joshua.config">>] }

GrammarNames == {"grammar", "glue"}

\* What the extractor prints: dense features; dense and named ones; nothing.
FeatureOutputs ==
    { <<"0", "\n", "1", "\n">>,
      <<"0", "\n", "OOV", "\n", "1", "0", "\n">>,
      <<>> }

Worlds == [GrammarNames -> FeatureOutputs]

InitParams ==
    /\ \E lines \in Configs(MaxConfigLines), place \in ConfigPlaces,
          world \in Worlds :
         input = [fn |-> "derive_params", lines |-> lines,
                  dir |-> place.dir, config |-> place.config, world |-> world,
                  text |-> Concat([i \in 1..Len(lines) |-> lines[i].text])]
    /\ output = Pending
    /\ RunIdle

Call_derive_params ==
    /\ input.fn = "derive_params"
    /\ output = Pending
    /\ LET r == derive_params(input.config, input.world, input.text) IN
         output' = [st |-> IF r.exc = "none" THEN "return" ELSE "raise",
                    exc |-> r.exc, params |-> r.params, calls |-> r.calls]
    /\ UNCHANGED <<input, runVars>>

NextParams == Call_derive_params

SpecParams == InitParams /\ [][NextParams]_vars

Derived == input.fn = "derive_params" /\ output.st = "return"

\* The TM lines of the config, in file order.
TmLines == SelectSeq(input.lines, LAMBDA l : l.kind = "tm")

\* A parameter entry as the parameter file holds it.
Entry(name, initial, rest) == name \o <<" ||| ", initial, rest>>

\* What a TM line of owner `owner` emits for extractor feature f.
TmEntry(owner, f) ==
    IF f # <<>> /\ \A i \in 1..Len(f) : f[i] \in DigitSet
    THEN Entry(<<"tm_">> \o owner \o <<"_">> \o f, "1.0", " Opt -Inf +Inf -1 +1")
    ELSE Entry(f, "0.0", " Opt -Inf +Inf -1 +1")

\* What the k-th language-model line emits.
LmEntry(k) == Entry(<<"lm_">> \o Decimal(k), "1.0", " Opt 0.1 +Inf +0.5 +1.5")

\* An entry named after a type token of the allow-list.
FfEntries == {Entry(t, "1.0", " Opt -Inf +Inf -1 +1") : t \in FfAllowList}

\* params is the concatenation, in file order, of the emissions of `lines`:
\* a TM line emits one entry per feature the extractor returned for it, the
\* k-th language-model line emits lm_<k>, a line that is neither a TM nor a
\* feature-function line emits nothing; another feature-function line emits
\* nothing or one entry of the allow-list (C9 says which).
RECURSIVE EmissionsInOrder(_, _, _, _)
EmissionsInOrder(lines, calls, params, k) ==
    IF lines = <<>> THEN params = <<>>
    ELSE
        LET l == Head(lines) IN
        CASE l.kind = "tm" ->
                /\ calls # <<>>
                /\ LET feats == Head(calls).feats IN
                     /\ Len(params) >= Len(feats)
                     /\ \A i \in 1..Len(feats) : params[i] = TmEntry(l.owner, feats[i])
                     /\ EmissionsInOrder(Tail(lines), Tail(calls),
                            SubSeq(params, Len(feats) + 1, Len(params)), k)
          [] l.kind = "lm" ->
                /\ params # <<>>
                /\ Head(params) = LmEntry(k)
                /\ EmissionsInOrder(Tail(lines), calls, Tail(params), k + 1)
          [] l.kind = "ff" ->
                \/ EmissionsInOrder(Tail(lines), calls, params, k)
                \/ /\ params # <<>>
                   /\ Head(params) \in FfEntries
                   /\ EmissionsInOrder(Tail(lines), calls, Tail(params), k)
          [] OTHER -> EmissionsInOrder(Tail(lines), calls, params, k)

\* C1: the parameter sequence setup_configs derives is the concatenation, in
\* file order, of each line's emissions: per TM line one entry per extractor
\* feature in extractor order (tm_<owner>_<id> at 1.0 for a numeric id, the
\* name at 0.0 otherwise), lm_<k> for the k-th language-model line counted
\* from 0; other lines emit nothing and change neither order nor index.
C1_ParamOrder ==
    Derived => EmissionsInOrder(input.lines, output.calls, output.params, 0)

\* C1's case: two TM lines and a language-model line, with dense and named
\* features, give tm_pt_0, tm_pt_1, tm_glue_0, OOV, tm_glue_10, lm_0.
C1_Witness ==
    /\ Derived
    /\ Len(input.lines) = 3
    /\ input.lines[1].kind = "tm" /\ input.lines[1].owner = <<"pt">>
    /\ input.lines[2].kind = "tm" /\ input.lines[2].owner = <<"glue">>
    /\ input.lines[3].kind = "lm"
    /\ output.params =
         << <<"tm_", "pt", "_", "0", " ||| ", "1.0", " Opt -Inf +Inf -1 +1">>,
            <<"tm_", "pt", "_", "1", " ||| ", "1.0", " Opt -Inf +Inf -1 +1">>,
            <<"tm_", "glue", "_", "0", " ||| ", "1.0", " Opt -Inf +Inf -1 +1">>,
            <<"OOV", " ||| ", "0.0", " Opt -Inf +Inf -1 +1">>,
            <<"tm_", "glue", "_", "1", "0", " ||| ", "1.0", " Opt -Inf +Inf -1 +1">>,
            <<"lm_", "0", " ||| ", "1.0", " Opt 0.1 +Inf +0.5 +1.5">> >>

\* The grammar path of a TM line as the extractor must get it: unchanged when
\* absolute, else inside the directory that contains the decoder config.
ExpectedGrammarPath(dir, path) ==
    IF Head(path) = "/" THEN path
    ELSE IF dir = <<>> THEN path
    ELSE dir \o <<"/">> \o path

\* C8: for every TM line whose grammar path is not absolute the extractor
\* gets the path joined to the directory containing the decoder config; an
\* absolute grammar path is passed unchanged.
C8_GrammarPath ==
    (input.fn = "derive_params" /\ output.st # "pending") =>
        /\ Len(output.calls) <= Len(TmLines)
        /\ output.st = "return" => Len(output.calls) = Len(TmLines)
        /\ \A k \in 1..Len(output.calls) :
             output.calls[k].path = ExpectedGrammarPath(input.dir, TmLines[k].path)

\* C8's case: the config is in /exp/model; a relative grammar path is looked
\* up there and an absolute one as written.
C8_Witness ==
    /\ Derived
    /\ input.config = <<"/", "exp", "/", "model", "/", "joshua.config">>
    /\ Len(TmLines) = 2
    /\ TmLines[1].path = <<"grammar">>
    /\ TmLines[2].path = <<"/", "data", "/", "glue">>
    /\ output.calls[1].path = <<"/", "exp", "/", "model", "/", "grammar">>
    /\ output.calls[2].path = <<"/", "data", "/", "glue">>

\* The entries the feature-function lines that name no language model must
\* emit: one, named after the type token, when the token is on the allow-list.
RECURSIVE FfExpected(_)
FfExpected(lines) ==
    IF lines = <<>> THEN <<>>
    ELSE (IF Head(lines).kind = "ff" /\ Head(lines).token \in FfAllowList
          THEN <<Entry(Head(lines).token, "1.0", " Opt -Inf +Inf -1 +1")>>
          ELSE <<>>) \o FfExpected(Tail(lines))

\* C9: a feature-function line that names no language model emits exactly
\* one parameter named after its type token when the token is SourcePath,
\* PhrasePenalty or Distortion, and nothing otherwise, for every layout of
\* the line: the token last on the line, tabs, several spaces.
C9_FfEmission ==
    Derived =>
        SelectSeq(output.params, LAMBDA e : e \in FfEntries)
            = FfExpected(input.lines)

----------------------------------------------------------------------------
(* Runs of the orchestrator, one after the other, on one tune directory.   *)

TuneDirs == {<<"/", "exp", "/", "tune">>, <<"tune">>}

\* The decoder config is outside the tune directory, under an absolute or a
\* relative path, or it is <tunedir>/joshua.config itself.
DecoderConfigPaths(tunedir) ==
    { <<"/", "exp", "/", "model", "/", "joshua.config">>,
      <<"model", "/", "joshua.config">>,
      tunedir \o <<"/", "joshua.config">> }

\* The texts of the decoder config: one that parses, one whose TM line does
\* not.
RunConfigTexts ==
    { Concat(<<LegacyLine(<<"thrax">>, <<"pt">>, <<"2", "0">>, <<"grammar">>),
               <<"\n">>,
               FfPrefix, <<" ", "LanguageModel", " ", "-lm_order", " ", "5", "\n">>,
               FfPrefix, <<" ", "PhrasePenalty", " ", "-owner", " ", "pt", "\n">> >>),
      Concat(<<FfPrefix, <<" ", "OOVPenalty", "\n">>,
               <<"tm", " ", "=", " ", "thrax", " ", "pt", "\n">> >>) }

RefTarget == <<"/", "exp", "/", "ref">>

\* The reference files present: a numbered family, one plain file, none.
RefFileSets ==
    { {RefName(RefTarget, <<".">>, 0), RefName(RefTarget, <<".">>, 1)},
      {RefTarget},
      {} }

InitRun ==
    /\ \E tunedir \in TuneDirs, text \in RunConfigTexts, refs \in RefFileSets :
         \E config \in DecoderConfigPaths(tunedir) :
            /\ fs = [path \in {config} \cup refs |->
                        IF path = config THEN File(text)
                        ELSE File(<<"reference", "\n">>)]
            /\ args = [tuner |-> "none", tunedir |-> tunedir,
                       source |-> <<"/", "exp", "/", "source.txt">>,
                       target |-> RefTarget,
                       command |-> <<"/", "exp", "/", "decoder_command.sh">>,
                       config |-> config,
                       output |-> <<"/", "exp", "/", "output.nbest">>]
            /\ input = [fn |-> "run", original |-> text]
    /\ output = Pending
    /\ pc = "idle"
    /\ local = LocalInit
    /\ log = <<>>
    /\ runs = 0

NextRun ==
    \/ run_zmert
    \/ run_pro
    \/ LinkDecoderConfig
    \/ WriteTunerConfig
    \/ DeriveParams
    \/ WriteParams
    \/ StartOptimizer
    \/ OptimizerExits
    \/ PublishFinal

SpecRun == InitRun /\ [][NextRun]_vars

Logged(event) == \E i \in 1..Len(log) : log[i] = event

\* C4: a later run that finds a joshua.config.final symlink left by an
\* earlier run replaces it: the run completes and the symlink exists
\* afterwards, also when the old symlink's target does not exist.  (The
\* first run finds none; a run is at its last step once the optimizer has
\* ended.)
C4_RerunReplacesFinal ==
    (runs >= 2 /\ Logged("optimizer_exit") /\ pc \in {"done", "raised"}) =>
        /\ pc = "done"
        /\ FinalConfigPath(args.tunedir) \in DOMAIN fs
        /\ fs[FinalConfigPath(args.tunedir)].type = "link"

\* C5: the file at decoder_config_path exists with unchanged content after
\* setup_configs has replaced the local decoder-config symlink, also when
\* decoder_config_path is <tune_dir>/joshua.config.
C5_OriginalKept ==
    (input.fn = "run" /\ Logged("link_decoder_config")) =>
        /\ args.config \in DOMAIN fs
        /\ fs[args.config] = File(input.original)

\* The runs of blanks and tabs that separate the fields of a template line.
BlankChunks ==
    {"\t",
     " ",
     "\t ",
     "  ",
     "\t\t\t",
     "   ",
     "    ",
     "     ",
     "       ",
     "        ",
     "           ",
     "            ",
     "              ",
     "                   ",
     "                         ",
     "                          ",
     "                           "}

\* The value of the entry `key` of a rendered tuner config: the words after
\* the key and its blanks, up to the next blanks, comment or line end.
RECURSIVE ValueRun(_, _)
ValueRun(line, i) ==
    IF i > Len(line) \/ line[i] \in BlankChunks \cup {"\n"} THEN <<>>
    ELSE <<line[i]>> \o ValueRun(line, i + 1)

EntryOf(content, key) ==
    LET lines == FileLines(content)
        k == CHOOSE k \in 1..Len(lines) : lines[k] # <<>> /\ Head(lines[k]) = key
    IN  ValueRun(lines[k], 3)

\* The tuner config as the file system holds it.
TunerConfigText == fs[TunerConfigPath(args.tuner, args.tunedir)].content

\* C7: for both tuners the rendered tuner config carries the values supplied
\* to the run: -cmd is the decoder command, -decOut the decoder output path,
\* -dcfg the path of the local decoder-config symlink just created.
C7_TunerConfigEntries ==
    (input.fn = "run" /\ Logged("write_tuner_config")) =>
        /\ EntryOf(TunerConfigText, "-cmd") = args.command
        /\ EntryOf(TunerConfigText, "-decOut") = args.output
        /\ EntryOf(TunerConfigText, "-dcfg") = local.local_config

\* The side effects of a run, in the order the claim gives.
StepOrder ==
    <<"link_decoder_config", "write_tuner_config", "write_params",
      "optimizer_start", "optimizer_exit", "link_final">>

\* C10: in every run the steps happen in this order, each after the one
\* before: decoder-config symlink replaced, tuner config written, params.txt
\* written, optimizer started and run to completion, final-config symlink
\* removed and re-created.  The optimizer is not started before both files
\* are written, and the final-config step is taken for every exit status.
C10_StepOrder ==
    input.fn = "run" =>
        /\ Len(log) <= Len(StepOrder)
        /\ log = SubSeq(StepOrder, 1, Len(log))
        /\ (pc = "optimizer_running" \/ Logged("optimizer_start")) =>
             /\ Logged("write_tuner_config")
             /\ Logged("write_params")
             /\ isfile(fs, TunerConfigPath(args.tuner, args.tunedir))
             /\ isfile(fs, ParamsPath(args.tunedir))
        /\ local.exit_status # -1 =>
             \/ pc \in {"publish_final", "done"}
             \/ pc = "raised" /\ local.raised_at = "publish_final"
        /\ pc = "done" => log = StepOrder

\* C10's case: the optimizer failed (exit status 1, nothing produced) and the
\* run still went through every step, in order.
C10_Witness ==
    /\ input.fn = "run"
    /\ pc = "done"
    /\ local.exit_status = 1
    /\ FinalTarget(args.tunedir) \notin DOMAIN fs
    /\ log = StepOrder
    /\ fs[FinalConfigPath(args.tunedir)] = Link(FinalTarget(args.tunedir))

====
